---------------------------- MODULE Spec2Model ----------------------------
(***************************************************************************)
(* Model of the PV inverter MQTT -> DBus bridge                            *)
(* (src/pvinverter_new_refactored_untested.py; src/pvinverter_new.py is    *)
(* the legacy variant of the same logic and is quoted where it differs).   *)
(*                                                                         *)
(* Text is held as a sequence of one-character strings, so that strip(),   *)
(* split(",") and float() are computed character by character.  The        *)
(* payload alphabet has digits, the comma, the blank, a letter and an      *)
(* undecodable byte, but no sign, decimal point or exponent: every float   *)
(* that float() returns here is a non-negative whole number and is held    *)
(* as an integer.  Values written to the DBus service are rounded to one   *)
(* decimal by the code and are held in tenths.  Reconnect delays are held  *)
(* in units of 1/Scale second, which is exact for every delay the code     *)
(* can compute between the floor and the ceiling.                          *)
(***************************************************************************)
EXTENDS Integers, Sequences, FiniteSets, TLC

VARIABLES
    store,            \* MQTTDataStore fields (pow_ges .. connected)
    lock,             \* MQTTDataStore._lock: "free" or the thread holding it
    msgs,             \* number of messages handled so far
    lastMsg,          \* the message handled last and what _on_message did with it
    wpc,              \* transport thread inside a store setter: its position
    wargs,            \* ... and the assignments it still has to make
    calls,            \* the setter calls begun so far, each with its arguments
    rpc,              \* main loop inside get_all: its position
    data,             \* ... and the dict it is building (then holds)
    dbus,             \* VeDbusService: path -> value
    publishScheduled, \* the gobject timeout source of _update is still installed
    lastTick,         \* what the last run of _update did
    okTicks,          \* runs of _update that raised nothing, modulo 2 * Modulus
    link,             \* the transport's connection: idle, connecting, up, refused, down
    loop,             \* the transport's network thread runs (loop_start / loop_stop)
    running,          \* the process has not shut down
    reconnect_delay,  \* MQTTClient.reconnect_delay, in 1/Scale s
    reconnect_timer,  \* MQTTClient.reconnect_timer: NoTimer, DeadTimer or a timer
    timers,           \* the threading.Timer objects that are not finished
    subscribed,       \* the client has subscribed on this connection
    armed,            \* the delays of the timers armed since the last reset
    prevArmed,        \* how many timers were armed before the last reset
    lastOp,           \* the handler that ran last and what it did
    tpc,              \* each thread's position inside _schedule_reconnect
    tloc,             \* ... and its locals there
    nsched            \* calls of _schedule_reconnect begun by the threads

storeVars == <<store, lock>>
ingestVars == <<msgs, lastMsg>>
threadVars == <<wpc, wargs, calls, rpc, data>>
publishVars == <<dbus, publishScheduled, lastTick, okTicks>>
raceVars == <<tpc, tloc, nsched>>
connVars == <<link, loop, running, reconnect_delay, reconnect_timer, timers,
              subscribed, armed, prevArmed, lastOp, raceVars>>
vars == <<store, lock, msgs, lastMsg, wpc, wargs, calls, rpc, data,
          dbus, publishScheduled, lastTick, okTicks,
          link, loop, running, reconnect_delay, reconnect_timer, timers,
          subscribed, armed, prevArmed, lastOp, tpc, tloc, nsched>>

(***************************************************************************)
(* Bounds of the model                                                     *)
(***************************************************************************)
MaxLen == 4
MaxMsgs == 1
MaxCalls == 1
MaxTimers == 3
MaxRetries == 13
MaxSched == 3
MaxWatts == 100000

(***************************************************************************)
(* Program constants                                                       *)
(***************************************************************************)
InitialEnergyOffset == 73311
UnitsPerKWh == 10000
NominalVoltage == 230
Modulus == 256
ShareL1 == 576
ShareL2 == 212
ShareL3 == 212
ReconnectDelay == 5
MaxReconnectDelay == 300

Min(a, b) == IF a <= b THEN a ELSE b

(***************************************************************************)
(* Text: payloads, strip, split, float                                     *)
(***************************************************************************)
Digits == {"0", "1", "2", "3", "4", "5", "6", "7", "8", "9"}
Whitespace == {" "}
BadByte == "#"
Alphabet == {"1", "2", ",", "x"}

DigitValue(c) ==
    CASE c = "0" -> 0 [] c = "1" -> 1 [] c = "2" -> 2 [] c = "3" -> 3
      [] c = "4" -> 4 [] c = "5" -> 5 [] c = "6" -> 6 [] c = "7" -> 7
      [] c = "8" -> 8 [] c = "9" -> 9

RECURSIVE StringsUpTo(_)
StringsUpTo(n) ==
    IF n = 0 THEN {<<>>}
    ELSE LET shorter == StringsUpTo(n - 1)
         IN  shorter \cup {Append(s, c) : s \in {t \in shorter : Len(t) = n - 1},
                                          c \in Alphabet}

SamplePayloads ==
    { <<"2", "3", "0", ",", "4", "6", "0", ",", "0">>,
      <<"7", "3", "3", "1", "2", "0", "0", "0", "0">>,
      <<" ", "1", ",", " ", "2", ",", "1", " ">>,
      <<"1", ",", " ", ",", "2">>,
      <<"1", "#">> }

Payloads == StringsUpTo(MaxLen) \cup SamplePayloads

\* message.payload.decode("utf-8"): raises on a byte that is not UTF-8
Decodable(bytes) == \A i \in 1..Len(bytes) : bytes[i] # BadByte

RECURSIVE StripLeft(_)
StripLeft(s) ==
    IF Len(s) > 0 /\ Head(s) \in Whitespace THEN StripLeft(Tail(s)) ELSE s

RECURSIVE StripRight(_)
StripRight(s) ==
    IF Len(s) > 0 /\ s[Len(s)] \in Whitespace
    THEN StripRight(SubSeq(s, 1, Len(s) - 1)) ELSE s

\* str.strip()
Strip(s) == StripRight(StripLeft(s))

RECURSIVE SplitFrom(_, _, _)
SplitFrom(s, i, cur) ==
    IF i > Len(s) THEN <<cur>>
    ELSE IF s[i] = "," THEN <<cur>> \o SplitFrom(s, i + 1, <<>>)
    ELSE SplitFrom(s, i + 1, Append(cur, s[i]))

\* str.split(","): always at least one part, empty parts kept
Split(s) == SplitFrom(s, 1, <<>>)

\* float(text) succeeds: blanks around a non-empty run of digits
IsFloat(text) ==
    LET t == Strip(text)
    IN  Len(t) > 0 /\ \A i \in 1..Len(t) : t[i] \in Digits

RECURSIVE DecimalValue(_)
DecimalValue(t) ==
    IF Len(t) = 0 THEN 0
    ELSE 10 * DecimalValue(SubSeq(t, 1, Len(t) - 1)) + DigitValue(t[Len(t)])

\* float(text) where it succeeds
FloatOf(text) == DecimalValue(Strip(text))

(***************************************************************************)
(* MQTTDataStore                                                           *)
(***************************************************************************)
\* a store whose e_total is not seeded with the offset
StoreInit_Unseeded ==
    [ pow_ges |-> 0, e_today |-> 0, e_total |-> 0,
      pow_l1 |-> 0, pow_l2 |-> 0, pow_l3 |-> 0,
      connected |-> FALSE ]

StoreInit ==
    [ pow_ges |-> 0, e_today |-> 0,
      e_total |-> InitialEnergyOffset * UnitsPerKWh,
      pow_l1 |-> 0, pow_l2 |-> 0, pow_l3 |-> 0,
      connected |-> FALSE ]

\* one statement  self.<field> = float(<text>)  of a setter
AssignFloat(s, field, text) == [s EXCEPT ![field] = FloatOf(text)]

(* The body of a setter under the lock: the assignments in source order;  *)
(* float() raising ValueError leaves the with-block at once, the earlier  *)
(* assignments stay.  Result: the store and whether ValueError was raised.*)
RECURSIVE RunAssignments(_, _)
RunAssignments(s, assigns) ==
    IF Len(assigns) = 0 THEN [store |-> s, raised |-> FALSE]
    ELSE LET a == Head(assigns)
         IN  IF ~IsFloat(a[2]) THEN [store |-> s, raised |-> TRUE]
             ELSE RunAssignments(AssignFloat(s, a[1], a[2]), Tail(assigns))

update_power(s, value) == RunAssignments(s, << <<"pow_ges", value>> >>)

\* a setter that writes the neighbouring field
update_energy_today_WrongField(s, value) == RunAssignments(s, << <<"e_total", value>> >>)

update_energy_today(s, value) == RunAssignments(s, << <<"e_today", value>> >>)

update_energy_total(s, value) == RunAssignments(s, << <<"e_total", value>> >>)

\* the first two phases the wrong way round
PhaseAssignments_Swapped(l1, l2, l3) ==
    << <<"pow_l1", l2>>, <<"pow_l2", l1>>, <<"pow_l3", l3>> >>

PhaseAssignments(l1, l2, l3) ==
    << <<"pow_l1", l1>>, <<"pow_l2", l2>>, <<"pow_l3", l3>> >>

update_phase_powers(s, l1, l2, l3) == RunAssignments(s, PhaseAssignments(l1, l2, l3))

set_connected(s, state) == [s EXCEPT !.connected = state]

\* get_all: the dict built under the lock
get_all(s) == s

PhaseTriple(s) == <<s.pow_l1, s.pow_l2, s.pow_l3>>

(***************************************************************************)
(* MQTTClient._on_message                                                  *)
(***************************************************************************)
TopicPower == "ehzmeter/pvpower"
TopicToday == "ehzmeter/pvtoday"
TopicTotal == "ehzmeter/pvtotal"
TopicPhases == "ehzmeter/pvpwrl123"
TopicOther == "ehzmeter/other"
Topics == {TopicPower, TopicToday, TopicTotal, TopicPhases, TopicOther}

\* as in the legacy on_message, which has no try: ValueError leaves the callback
FromSetter_Propagates(r) ==
    [store |-> r.store, outcome |-> IF r.raised THEN "raised" ELSE "applied"]

\* ValueError is caught at line 205 or 208 and logged; the callback returns
FromSetter(r) ==
    [store |-> r.store, outcome |-> IF r.raised THEN "parse_error" ELSE "applied"]

\* the payload is what the interface asks of a pvpwrl123 message
WellFormedPhases(payload) ==
    /\ Decodable(payload)
    /\ LET parts == Split(Strip(payload))
       IN  Len(parts) = 3 /\ \A i \in 1..3 : IsFloat(parts[i])

(* Lines 184 and 200 for every payload of the model, computed once:       *)
(* whether decode() succeeds, the stripped text and its split(",").       *)
Decoded ==
    [ p \in Payloads |->
        [ decodable |-> Decodable(p),
          msg |-> Strip(p),
          parts |-> Split(Strip(p)),
          wellFormed |-> WellFormedPhases(p) ] ]

(* What _on_message does to the store, and which branch ended it:         *)
(* "applied", "ignored" (no topic matched), "bad_count" (line 202),       *)
(* "parse_error" (ValueError, lines 205 and 208), "decode_error" (208).   *)
HandleMessage(s, topic, payload) ==
    LET d == Decoded[payload]
    IN  IF ~d.decodable THEN [store |-> s, outcome |-> "decode_error"]
        ELSE CASE topic = TopicPower -> FromSetter(update_power(s, d.msg))
               [] topic = TopicToday -> FromSetter(update_energy_today(s, d.msg))
               [] topic = TopicTotal -> FromSetter(update_energy_total(s, d.msg))
               [] topic = TopicPhases ->
                    IF Len(d.parts) # 3
                    THEN [store |-> s, outcome |-> "bad_count"]
                    ELSE FromSetter(update_phase_powers(s, d.parts[1], d.parts[2], d.parts[3]))
               [] OTHER -> [store |-> s, outcome |-> "ignored"]

\* the store fields a topic names
Named(topic) ==
    CASE topic = TopicPower -> {"pow_ges"}
      [] topic = TopicToday -> {"e_today"}
      [] topic = TopicTotal -> {"e_total"}
      [] topic = TopicPhases -> {"pow_l1", "pow_l2", "pow_l3"}
      [] OTHER -> {}

(* The numbers a payload states when it is valid for its topic: one for    *)
(* the three scalar topics, three for pvpwrl123; <<>> when it is not valid  *)
(* or the topic is none of the four.                                       *)
Stated(topic, payload) ==
    LET d == Decoded[payload]
    IN  IF ~d.decodable THEN <<>>
        ELSE IF topic \in {TopicPower, TopicToday, TopicTotal}
        THEN IF IsFloat(d.msg) THEN <<FloatOf(d.msg)>> ELSE <<>>
        ELSE IF topic = TopicPhases /\ d.wellFormed
        THEN [i \in 1..3 |-> FloatOf(d.parts[i])]
        ELSE <<>>

NoMsg ==
    [topic |-> "none", wellFormed |-> TRUE, outcome |-> "none", before |-> StoreInit,
     values |-> <<>>]

(***************************************************************************)
(* DbusPVInverter: the paths and one run of _update                        *)
(***************************************************************************)
Phases == <<"L1", "L2", "L3">>

PathPower == "/Ac/Power"
PathEnergy == "/Ac/Energy/Forward"
PathIndex == "/UpdateIndex"
PathVoltage(ph) == CASE ph = "L1" -> "/Ac/L1/Voltage" [] ph = "L2" -> "/Ac/L2/Voltage"
                     [] ph = "L3" -> "/Ac/L3/Voltage"
PathCurrent(ph) == CASE ph = "L1" -> "/Ac/L1/Current" [] ph = "L2" -> "/Ac/L2/Current"
                     [] ph = "L3" -> "/Ac/L3/Current"
PathPhasePower(ph) == CASE ph = "L1" -> "/Ac/L1/Power" [] ph = "L2" -> "/Ac/L2/Power"
                        [] ph = "L3" -> "/Ac/L3/Power"
PathPhaseEnergy(ph) == CASE ph = "L1" -> "/Ac/L1/Energy/Forward"
                         [] ph = "L2" -> "/Ac/L2/Energy/Forward"
                         [] ph = "L3" -> "/Ac/L3/Energy/Forward"

\* the paths _update assigns, in the order it assigns them
WriteOrder ==
    << PathPower, PathEnergy,
       PathCurrent("L1"), PathPhasePower("L1"), PathPhaseEnergy("L1"),
       PathCurrent("L2"), PathPhasePower("L2"), PathPhaseEnergy("L2"),
       PathCurrent("L3"), PathPhasePower("L3"), PathPhaseEnergy("L3"),
       PathIndex >>

NWrites == Len(WriteOrder)

MetricPaths ==
    {WriteOrder[i] : i \in 1..NWrites} \cup {PathVoltage(Phases[i]) : i \in 1..3}

Tenths(x) == 10 * x

\* _setup_paths: every path with its initial value (values in tenths, the index whole)
DbusInit ==
    [ p \in MetricPaths |->
        IF p \in {PathVoltage(Phases[i]) : i \in 1..3} THEN Tenths(NominalVoltage) ELSE 0 ]

(* n / d rounded to the nearest whole number, ties to the even one (d > 0), *)
(* with base added after rounding; base takes part in the parity of a tie.  *)
RoundDivFrom(base, n, d) ==
    LET q == n \div d
        r == n % d
    IN  IF 2 * r < d THEN base + q
        ELSE IF 2 * r > d THEN base + q + 1
        ELSE IF (base + q) % 2 = 0 THEN base + q ELSE base + q + 1

RoundDiv(n, d) == RoundDivFrom(0, n, d)

\* the offset forgotten
NetEnergyRaw_NoOffset(d) == d.e_total

\* e_totkwh = e_total / 10000.0 - offset, kept in units of 0.1 Wh
NetEnergyRaw(d) == d.e_total - InitialEnergyOffset * UnitsPerKWh

\* round(e_totkwh, 1), in tenths of a kWh
EnergyTenths(d) == RoundDiv(NetEnergyRaw(d), UnitsPerKWh \div 10)

\* round(e_totkwh * share / 1000, 1), in tenths of a kWh (share in thousandths)
ShareTenths(d, share) ==
    LET a == NetEnergyRaw(d) \div 1000
        b == NetEnergyRaw(d) % 1000
        x == a * share
    IN  RoundDivFrom(x \div 1000, (x % 1000) * 1000 + b * share, 1000000)

\* a nominal voltage of 220
CurrentTenths_WrongVoltage(power) == RoundDiv(power, 22)

\* round(power / 230.0, 1), in tenths of an ampere
CurrentTenths(power) == RoundDiv(power, NominalVoltage \div 10)

PhasePower(d, ph) ==
    CASE ph = "L1" -> d.pow_l1 [] ph = "L2" -> d.pow_l2 [] ph = "L3" -> d.pow_l3

EnergyShare(ph) ==
    CASE ph = "L1" -> ShareL1 [] ph = "L2" -> ShareL2 [] ph = "L3" -> ShareL3

\* a wrap that comes one step late
NextIndex_WrapsLate(i) == IF i + 1 > Modulus THEN 0 ELSE i + 1

\* line 304
NextIndex(i) == (i + 1) % Modulus

\* the value _update assigns to a path, from the snapshot and the service
PublishedValue(path, d, bus) ==
    IF path = PathPower THEN Tenths(d.pow_ges)
    ELSE IF path = PathEnergy THEN EnergyTenths(d)
    ELSE IF path = PathIndex THEN NextIndex(bus[PathIndex])
    ELSE LET ph == CHOOSE q \in {"L1", "L2", "L3"} :
                      path \in {PathCurrent(q), PathPhasePower(q), PathPhaseEnergy(q)}
         IN  IF path = PathCurrent(ph) THEN CurrentTenths(PhasePower(d, ph))
             ELSE IF path = PathPhasePower(ph) THEN Tenths(PhasePower(d, ph))
             ELSE ShareTenths(d, EnergyShare(ph))

\* the paths assigned by a run whose failAt-th assignment raised (0: none raised)
WrittenPaths(failAt) ==
    {WriteOrder[i] : i \in 1..(IF failAt = 0 THEN NWrites ELSE failAt - 1)}

\* an except clause that gives the timer up
UpdateReturns_FalseOnError(failAt) == failAt = 0

\* what _update returns to the timer driver: lines 309 and 313
UpdateReturns(failAt) == TRUE

NoTick == [failAt |-> 0, written |-> {}, returned |-> TRUE]

(* One run of _update.  failAt is the assignment at which the sink raises  *)
(* (0: none); the exception leaves the try block, so the assignments after *)
(* it are not made, and the except clause returns.                         *)
Update(failAt) ==
    /\ publishScheduled
    /\ lock = "free"
    /\ LET d == get_all(store)
           written == WrittenPaths(failAt)
       IN  /\ dbus' = [p \in DOMAIN dbus |->
                          IF p \in written THEN PublishedValue(p, d, dbus) ELSE dbus[p]]
           /\ lastTick' = [failAt |-> failAt, written |-> written,
                           returned |-> UpdateReturns(failAt)]
    /\ publishScheduled' = UpdateReturns(failAt)
    /\ okTicks' = IF failAt = 0 THEN (okTicks + 1) % (2 * Modulus) ELSE okTicks
    /\ UNCHANGED <<storeVars, ingestVars, threadVars, connVars>>

(***************************************************************************)
(* MQTTClient: connection callbacks and the reconnect timer                *)
(***************************************************************************)
Scale == 2 ^ 10
FloorDelay == ReconnectDelay * Scale
CeilingDelay == MaxReconnectDelay * Scale

TimerIds == 1..MaxTimers
NoTimer == 0
\* the transport's network thread, and the thread of each timer
TransportThread == 0
Threads == {TransportThread} \cup TimerIds
\* the main thread, which runs the signal handler
MainThread == 0 - 2
NoLocals == [delay |-> 0, read |-> 0]
DeadTimer == 0 - 1
Unused == [state |-> "unused", delay |-> 0]

\* return codes the transport hands to on_connect and on_disconnect
ResultCodes == {0, 1, 5}

NoEffects == [armed |-> 0, connects |-> 0, subscribes |-> 0, failed |-> 0, raised |-> 0]

(* The objects a handler works on, and fx: what the handler has done so    *)
(* far (timers armed, transport connects attempted, subscribe calls,       *)
(* transport connects that raised, exceptions it let through).             *)
World ==
    [ store |-> store, delay |-> reconnect_delay, timer |-> reconnect_timer,
      timers |-> timers, armed |-> armed, prevArmed |-> prevArmed,
      link |-> link, loop |-> loop, subscribed |-> subscribed, fx |-> NoEffects ]

HasFreeTimer(w) == \E id \in TimerIds : w.timers[id].state = "unused"

FreeTimer(w) ==
    CHOOSE id \in TimerIds :
        /\ w.timers[id].state = "unused"
        /\ \A other \in TimerIds : w.timers[other].state = "unused" => id <= other

\* a timer that is finished is no longer told apart from any other finished one
Finish(w, id) ==
    [w EXCEPT !.timers[id] = Unused,
              !.timer = IF @ = id THEN DeadTimer ELSE @]

\* Timer.cancel(): stops a timer that has not fired yet, nothing else
Cancel(w, ref) ==
    IF ref \in TimerIds /\ w.timers[ref].state = "pending" THEN Finish(w, ref) ELSE w

GrowDelay_Doubling(d) == Min(2 * d, CeilingDelay)

GrowDelay_Uncapped(d) == (3 * d) \div 2

\* line 223: min(reconnect_delay * 1.5, max_reconnect_delay)
GrowDelay(d) == Min((3 * d) \div 2, CeilingDelay)

\* line 216: min(reconnect_delay, max_reconnect_delay)
ArmDelay(d) == Min(d, CeilingDelay)

\* lines 211-223 (armed keeps the first MaxRetries delays since the reset)
schedule_reconnect(w) ==
    LET w1 == IF w.timer # NoTimer THEN Cancel(w, w.timer) ELSE w
        delay == ArmDelay(w1.delay)
        id == FreeTimer(w1)
        w2 == [w1 EXCEPT !.timers[id] = [state |-> "pending", delay |-> delay],
                         !.timer = id,
                         !.armed = IF Len(@) < MaxRetries THEN Append(@, delay) ELSE @,
                         !.fx.armed = @ + 1]
    IN  [w2 EXCEPT !.delay = GrowDelay(@)]

\* a connect() without the except clause: the transport's exception goes on
\* to the caller
connect_LetsThrough(w, ok) ==
    LET w1 == [w EXCEPT !.fx.connects = @ + 1]
    IN  IF ok THEN [w1 EXCEPT !.link = "connecting", !.loop = TRUE, !.subscribed = FALSE]
        ELSE [w1 EXCEPT !.fx.failed = @ + 1, !.fx.raised = @ + 1]

\* lines 142-150; ok: the transport's connect() did not raise
connect(w, ok) ==
    LET w1 == [w EXCEPT !.fx.connects = @ + 1]
    IN  IF ok THEN [w1 EXCEPT !.link = "connecting", !.loop = TRUE, !.subscribed = FALSE]
        ELSE schedule_reconnect([w1 EXCEPT !.fx.failed = @ + 1])

\* as the legacy on_connect does: subscribe whatever the result code
on_connect_AlwaysSubscribes(w, rc) ==
    [w EXCEPT !.store = set_connected(@, rc = 0),
              !.delay = IF rc = 0 THEN FloorDelay ELSE @,
              !.subscribed = TRUE,
              !.fx.subscribes = @ + 1,
              !.prevArmed = IF rc = 0 THEN Len(w.armed) ELSE @,
              !.armed = IF rc = 0 THEN <<>> ELSE @]

\* lines 160-170 (armed, prevArmed: the bookkeeping of the reset)
on_connect(w, rc) ==
    IF rc = 0
    THEN [w EXCEPT !.store = set_connected(@, TRUE),
                   !.delay = FloorDelay,
                   !.subscribed = TRUE,
                   !.fx.subscribes = @ + 1,
                   !.prevArmed = Len(w.armed),
                   !.armed = <<>>]
    ELSE [w EXCEPT !.store = set_connected(@, FALSE)]

\* as the legacy on_disconnect does: try again whatever the result code
on_disconnect_AlwaysRetries(w, rc) ==
    schedule_reconnect([w EXCEPT !.store = set_connected(@, FALSE)])

\* an on_disconnect that only marks the store
on_disconnect_NeverRetries(w, rc) ==
    [w EXCEPT !.store = set_connected(@, FALSE)]

\* lines 172-179
on_disconnect(w, rc) ==
    LET w1 == [w EXCEPT !.store = set_connected(@, FALSE)]
    IN  IF rc = 0 THEN w1 ELSE schedule_reconnect(w1)

\* a shutdown that releases nothing
disconnect_Skipped(w, delivered) == w

\* lines 152-158; delivered: the transport reports the clean disconnect
disconnect(w, delivered) ==
    LET w1 == IF w.timer # NoTimer THEN Cancel(w, w.timer) ELSE w
        w2 == [w1 EXCEPT !.loop = FALSE]
    IN  IF delivered THEN [on_disconnect(w2, 0) EXCEPT !.link = "idle"]
        ELSE [w2 EXCEPT !.link = "idle"]

\* attempt: the calls of connect() so far, modulo 2; sched: the calls of
\* _schedule_reconnect that had begun on a thread when the handler ran
NoOp == [op |-> "none", rc |-> 0, fx |-> NoEffects, delayBefore |-> FloorDelay,
         attempt |-> 0, sched |-> 0]

Become(w, op, rc) ==
    /\ store' = w.store
    /\ reconnect_delay' = w.delay
    /\ reconnect_timer' = w.timer
    /\ timers' = w.timers
    /\ armed' = w.armed
    /\ prevArmed' = w.prevArmed
    /\ link' = w.link
    /\ loop' = w.loop
    /\ subscribed' = w.subscribed
    /\ lastOp' = [op |-> op, rc |-> rc, fx |-> w.fx, delayBefore |-> reconnect_delay,
                   attempt |-> (lastOp.attempt + w.fx.connects) % 2,
                   sched |-> nsched]

(***************************************************************************)
(* Initial state: after Application.__init__ and DbusPVInverter.__init__   *)
(***************************************************************************)
Init ==
    /\ store = StoreInit
    /\ lock = "free"
    /\ msgs = 0
    /\ lastMsg = NoMsg
    /\ wpc = "idle"
    /\ wargs = <<>>
    /\ calls = {}
    /\ rpc = "idle"
    /\ data = <<>>
    /\ dbus = DbusInit
    /\ publishScheduled = TRUE
    /\ lastTick = NoTick
    /\ okTicks = 0
    /\ link = "idle"
    /\ loop = FALSE
    /\ running = TRUE
    /\ reconnect_delay = FloorDelay
    /\ reconnect_timer = NoTimer
    /\ timers = [id \in TimerIds |-> Unused]
    /\ subscribed = FALSE
    /\ armed = <<>>
    /\ prevArmed = 0
    /\ lastOp = NoOp
    /\ tpc = [t \in Threads \cup {MainThread} |-> "idle"]
    /\ tloc = [t \in Threads |-> NoLocals]
    /\ nsched = 0

(***************************************************************************)
(* Ingest: _on_message as one step of the transport thread                 *)
(***************************************************************************)
Deliver(topic, payload) ==
    /\ lock = "free"
    /\ \E r \in {HandleMessage(store, topic, payload)} :
           /\ store' = r.store
           /\ lastMsg' = [topic |-> topic,
                          wellFormed |-> (topic = TopicPhases => Decoded[payload].wellFormed),
                          outcome |-> r.outcome,
                          before |-> store,
                          values |-> Stated(topic, payload)]
    /\ UNCHANGED lock

OnMessage(topic, payload) ==
    /\ msgs < MaxMsgs
    /\ Deliver(topic, payload)
    /\ msgs' = msgs + 1
    /\ UNCHANGED <<threadVars, publishVars, connVars>>

NextIngest == \E topic \in Topics, payload \in Payloads : OnMessage(topic, payload)

SpecIngest == Init /\ [][NextIngest]_vars

(***************************************************************************)
(* Bridge: any message, then a valid one on one of the four topics, and    *)
(* one run of _update somewhere among them.  A callback that let an        *)
(* exception through would end the transport's thread: no message after.   *)
(***************************************************************************)
FollowUps ==
    { <<TopicPower, <<"2", "1">> >>,
      <<TopicToday, <<"1", "2">> >>,
      <<TopicTotal, <<"7", "3", "3", "1", "2", "0", "0", "0", "0">> >>,
      <<TopicPhases, <<"2", "3", "0", ",", "4", "6", "0", ",", "0">> >> }

Message(topic, payload) ==
    /\ msgs = 0
    /\ Deliver(topic, payload)
    /\ msgs' = msgs + 1
    /\ UNCHANGED <<threadVars, publishVars, connVars>>

FollowUp(topic, payload) ==
    /\ msgs = 1
    /\ lastMsg.outcome # "raised"
    /\ Deliver(topic, payload)
    /\ msgs' = msgs + 1
    /\ UNCHANGED <<threadVars, publishVars, connVars>>

\* powers above MaxWatts are left unpublished: their tenths would not fit
TickOnce(failAt) ==
    /\ lastTick = NoTick
    /\ \A f \in {"pow_ges", "pow_l1", "pow_l2", "pow_l3"} : store[f] <= MaxWatts
    /\ Update(failAt)

NextBridge ==
    \/ \E topic \in Topics, payload \in Payloads : Message(topic, payload)
    \/ \E m \in FollowUps : FollowUp(m[1], m[2])
    \/ \E failAt \in 0..NWrites : TickOnce(failAt)

SpecBridge == Init /\ [][NextBridge]_vars

(***************************************************************************)
(* Publish: the timer runs _update; the meter sends its readings           *)
(***************************************************************************)
PublishInputs ==
    { <<TopicPhases, <<"2", "3", "0", ",", "4", "6", "0", ",", "0">> >> }

OnReading(topic, payload) ==
    /\ Deliver(topic, payload)
    /\ UNCHANGED <<msgs, threadVars, publishVars, connVars>>

NextPublish ==
    \/ \E failAt \in 0..NWrites : Update(failAt)
    \/ \E m \in PublishInputs : OnReading(m[1], m[2])

SpecPublish == Init /\ [][NextPublish]_vars

\* the timeout source calls _update every update_interval for as long as it
\* is installed
Tick == \E failAt \in 0..NWrites : Update(failAt)

SpecPublishLive == Init /\ [][Tick]_vars /\ WF_vars(Tick)

(***************************************************************************)
(* Connection: each handler as one step of the thread that runs it         *)
(***************************************************************************)
others == <<lock, ingestVars, threadVars, publishVars, raceVars>>

CanArm == Len(armed) < MaxRetries /\ lock = "free" /\ running

\* Application.start: the first connect()
Start(ok) ==
    /\ CanArm
    /\ lastOp.op = "none"
    /\ Become(connect(World, ok), "connect", 0)
    /\ UNCHANGED <<running, others>>

\* the broker answers the connection request
OnConnect(rc) ==
    /\ running /\ lock = "free"
    /\ tpc[TransportThread] = "idle"
    /\ link = "connecting"
    /\ Become([on_connect(World, rc) EXCEPT !.link = IF rc = 0 THEN "up" ELSE "refused"],
              "on_connect", rc)
    /\ UNCHANGED <<running, others>>

\* the connection is lost or was refused
OnDisconnect(rc) ==
    /\ CanArm
    /\ rc # 0
    /\ link \in {"connecting", "up", "refused"}
    /\ HasFreeTimer(World)
    /\ Become([on_disconnect(World, rc) EXCEPT !.link = "down", !.subscribed = FALSE],
              "on_disconnect", rc)
    /\ UNCHANGED <<running, others>>

\* the transport's own network thread connects again
TransportReconnect ==
    /\ running
    /\ tpc[TransportThread] = "idle"
    /\ loop /\ link = "down"
    /\ link' = "connecting"
    /\ UNCHANGED <<store, loop, running, reconnect_delay, reconnect_timer, timers,
                   subscribed, armed, prevArmed, lastOp, others>>

\* a reconnect timer fires: its thread runs connect() and ends
Fire(id, ok) ==
    /\ CanArm
    /\ timers[id].state = "pending"
    /\ LET w0 == [World EXCEPT !.timers[id].state = "firing"]
       IN  HasFreeTimer(w0) /\ Become(Finish(connect(w0, ok), id), "timer", 0)
    /\ UNCHANGED <<running, others>>

\* _signal_handler, or start() failing after connect(): shutdown(), that is
\* MQTTClient.disconnect(), then sys.exit
Shutdown(delivered) ==
    /\ running /\ lock = "free"
    /\ lastOp.op # "none"
    /\ delivered => link \in {"connecting", "up"}
    /\ Become(disconnect(World, delivered),
              IF delivered THEN "on_disconnect" ELSE "disconnect", 0)
    /\ running' = FALSE
    /\ UNCHANGED others

\* Application.start fails before connect(): shutdown(), then sys.exit(1)
StartupFailure ==
    /\ running /\ lock = "free"
    /\ lastOp.op = "none"
    /\ Become(disconnect(World, FALSE), "disconnect", 0)
    /\ running' = FALSE
    /\ UNCHANGED others

NextConn ==
    \/ \E ok \in BOOLEAN : Start(ok)
    \/ StartupFailure
    \/ \E rc \in ResultCodes : OnConnect(rc)
    \/ \E rc \in ResultCodes : OnDisconnect(rc)
    \/ TransportReconnect
    \/ \E id \in TimerIds, ok \in BOOLEAN : Fire(id, ok)
    \/ \E delivered \in BOOLEAN : Shutdown(delivered)

SpecConn == Init /\ [][NextConn]_vars

(***************************************************************************)
(* The same handlers with no bound on the number of retries, and every     *)
(* pending timer firing in the end unless it is cancelled first            *)
(***************************************************************************)
Alive == lock = "free" /\ running

StartLive(ok) ==
    /\ Alive
    /\ lastOp.op = "none"
    /\ Become(connect(World, ok), "connect", 0)
    /\ UNCHANGED <<running, others>>

OnDisconnectLive(rc) ==
    /\ Alive
    /\ rc # 0
    /\ link \in {"connecting", "up", "refused"}
    /\ HasFreeTimer(World)
    /\ Become([on_disconnect(World, rc) EXCEPT !.link = "down", !.subscribed = FALSE],
              "on_disconnect", rc)
    /\ UNCHANGED <<running, others>>

FireLive(id, ok) ==
    /\ Alive
    /\ timers[id].state = "pending"
    /\ \E w0 \in {[World EXCEPT !.timers[id].state = "firing"]} :
           /\ HasFreeTimer(w0)
           /\ \E w \in {Finish(connect(w0, ok), id)} : Become(w, "timer", 0)
    /\ UNCHANGED <<running, others>>

TimerFires == \E id \in TimerIds, ok \in BOOLEAN : FireLive(id, ok)

NextConnLive ==
    \/ \E ok \in BOOLEAN : StartLive(ok)
    \/ \E rc \in ResultCodes : OnConnect(rc)
    \/ \E rc \in ResultCodes : OnDisconnectLive(rc)
    \/ TransportReconnect
    \/ TimerFires
    \/ \E delivered \in BOOLEAN : Shutdown(delivered)

SpecConnLive == Init /\ [][NextConnLive]_vars /\ WF_vars(TimerFires)

(***************************************************************************)
(* Reconnect under threads: _on_disconnect runs on the transport's network *)
(* thread and a timer's connect() on that timer's own thread, and          *)
(* _schedule_reconnect takes no lock, so the two run it line by line, one  *)
(* against the other.  Each line reads self.reconnect_timer and            *)
(* self.reconnect_delay afresh.  A Timer is created, then started          *)
(* (pending), then runs connect() (firing); cancel() stops a pending one   *)
(* and marks one that was not started yet; start() and the daemon setter   *)
(* raise RuntimeError on a timer that was started before.                  *)
(***************************************************************************)
Pending == {id \in TimerIds : timers[id].state = "pending"}

Started(ref) == ref = DeadTimer \/ (ref \in TimerIds /\ timers[ref].state \in {"pending", "firing"})

\* thread t leaves the handler, by return or by an exception; tm, ref: the
\* timers and self.reconnect_timer as the last line left them
Leave(t, tm, ref) ==
    /\ tpc' = [tpc EXCEPT ![t] = "idle"]
    /\ tloc' = [tloc EXCEPT ![t] = NoLocals]
    /\ timers' = IF t \in TimerIds THEN [tm EXCEPT ![t] = Unused] ELSE tm
    /\ reconnect_timer' = IF t \in TimerIds /\ ref = t THEN DeadTimer ELSE ref

\* an exception leaves the callback and ends the network thread; it ends a
\* timer's thread in any case
Raise(t) ==
    /\ Leave(t, timers, reconnect_timer)
    /\ loop' = IF t = TransportThread THEN FALSE ELSE loop

Goto(t, pc) == tpc' = [tpc EXCEPT ![t] = pc]

\* lines 172-179 up to the call of _schedule_reconnect
DisconnectBegins(rc) ==
    /\ running /\ lock = "free"
    /\ rc # 0
    /\ tpc[TransportThread] = "idle"
    /\ link \in {"connecting", "up", "refused"}
    /\ nsched < MaxSched
    /\ store' = set_connected(store, FALSE)
    /\ link' = "down"
    /\ subscribed' = FALSE
    /\ Goto(TransportThread, "l213")
    /\ nsched' = nsched + 1
    /\ UNCHANGED <<lock, ingestVars, threadVars, publishVars, loop, running,
                   reconnect_delay, reconnect_timer, timers, armed, prevArmed, lastOp, tloc>>

\* a timer fires; lines 142-150 up to the call of _schedule_reconnect
TimerBegins(id, ok) ==
    /\ running
    /\ timers[id].state = "pending"
    /\ tpc[id] = "idle"
    /\ ok \/ nsched < MaxSched
    /\ IF ok
       THEN /\ link' = "connecting"
            /\ loop' = TRUE
            /\ subscribed' = FALSE
            /\ timers' = [timers EXCEPT ![id] = Unused]
            /\ reconnect_timer' = IF reconnect_timer = id THEN DeadTimer ELSE reconnect_timer
            /\ UNCHANGED <<tpc, nsched>>
       ELSE /\ timers' = [timers EXCEPT ![id].state = "firing"]
            /\ Goto(id, "l213")
            /\ nsched' = nsched + 1
            /\ UNCHANGED <<link, loop, subscribed, reconnect_timer>>
    /\ UNCHANGED <<storeVars, ingestVars, threadVars, publishVars, running,
                   reconnect_delay, armed, prevArmed, lastOp, tloc>>

\* line 213: if self.reconnect_timer
SchedTest(t) ==
    /\ tpc[t] = "l213"
    /\ Goto(t, IF reconnect_timer # NoTimer THEN "l214" ELSE "l216")
    /\ UNCHANGED <<storeVars, ingestVars, threadVars, publishVars, link, loop, running,
                   reconnect_delay, reconnect_timer, timers, subscribed, armed,
                   prevArmed, lastOp, tloc, nsched>>

\* line 214: self.reconnect_timer.cancel()
SchedCancel(t) ==
    /\ tpc[t] = "l214"
    /\ LET ref == reconnect_timer
       IN  IF ref \in TimerIds /\ timers[ref].state = "pending"
           THEN timers' = [timers EXCEPT ![ref] = Unused] /\ reconnect_timer' = DeadTimer
           ELSE IF ref \in TimerIds /\ timers[ref].state = "created"
           THEN timers' = [timers EXCEPT ![ref].state = "cancelled"]
                /\ UNCHANGED reconnect_timer
           ELSE UNCHANGED <<timers, reconnect_timer>>
    /\ Goto(t, "l216")
    /\ UNCHANGED <<storeVars, ingestVars, threadVars, publishVars, link, loop, running,
                   reconnect_delay, subscribed, armed, prevArmed, lastOp, tloc, nsched>>

\* line 216: delay = min(self.reconnect_delay, max_reconnect_delay)
SchedDelay(t) ==
    /\ tpc[t] = "l216"
    /\ tloc' = [tloc EXCEPT ![t].delay = ArmDelay(reconnect_delay)]
    /\ Goto(t, "l218")
    /\ UNCHANGED <<storeVars, ingestVars, threadVars, publishVars, link, loop, running,
                   reconnect_delay, reconnect_timer, timers, subscribed, armed,
                   prevArmed, lastOp, nsched>>

\* line 218: self.reconnect_timer = Timer(delay, self.connect); a timer that
\* was never started and is no longer referenced is gone
SchedNewTimer(t) ==
    /\ tpc[t] = "l218"
    /\ \E id \in TimerIds :
          /\ timers[id].state = "unused"
          /\ tpc[id] = "idle"
          /\ \A other \in TimerIds : timers[other].state = "unused" => id <= other
          /\ timers' = [x \in TimerIds |->
                          IF x = id THEN [state |-> "created", delay |-> tloc[t].delay]
                          ELSE IF x = reconnect_timer
                                  /\ timers[x].state \in {"created", "cancelled"}
                               THEN Unused
                               ELSE timers[x]]
          /\ reconnect_timer' = id
    /\ Goto(t, "l219")
    /\ UNCHANGED <<storeVars, ingestVars, threadVars, publishVars, link, loop, running,
                   reconnect_delay, subscribed, armed, prevArmed, lastOp, tloc, nsched>>

\* line 219: self.reconnect_timer.daemon = True
SchedDaemon(t) ==
    /\ tpc[t] = "l219"
    /\ IF Started(reconnect_timer)
       THEN Raise(t)
       ELSE Goto(t, "l220") /\ UNCHANGED <<tloc, timers, reconnect_timer, loop>>
    /\ UNCHANGED <<storeVars, ingestVars, threadVars, publishVars, link, running,
                   reconnect_delay, subscribed, armed, prevArmed, lastOp, nsched>>

\* line 220: self.reconnect_timer.start()
SchedStart(t) ==
    /\ tpc[t] = "l220"
    /\ LET ref == reconnect_timer
       IN  IF Started(ref)
           THEN Raise(t) /\ UNCHANGED armed
           ELSE /\ IF timers[ref].state = "created"
                   THEN /\ timers' = [timers EXCEPT ![ref].state = "pending"]
                        /\ armed' = Append(armed, timers[ref].delay)
                        /\ UNCHANGED reconnect_timer
                   ELSE /\ timers' = [timers EXCEPT ![ref] = Unused]
                        /\ reconnect_timer' = DeadTimer
                        /\ UNCHANGED armed
                /\ Goto(t, "l223r")
                /\ UNCHANGED <<tloc, loop>>
    /\ UNCHANGED <<storeVars, ingestVars, threadVars, publishVars, link, running,
                   reconnect_delay, subscribed, prevArmed, lastOp, nsched>>

\* line 223, right-hand side: self.reconnect_delay * 1.5 is read
SchedGrowRead(t) ==
    /\ tpc[t] = "l223r"
    /\ tloc' = [tloc EXCEPT ![t].read = reconnect_delay]
    /\ Goto(t, "l223w")
    /\ UNCHANGED <<storeVars, ingestVars, threadVars, publishVars, link, loop, running,
                   reconnect_delay, reconnect_timer, timers, subscribed, armed,
                   prevArmed, lastOp, nsched>>

\* line 223, assignment; the handler returns
SchedGrowWrite(t) ==
    /\ tpc[t] = "l223w"
    /\ reconnect_delay' = GrowDelay(tloc[t].read)
    /\ Leave(t, timers, reconnect_timer)
    /\ UNCHANGED <<storeVars, ingestVars, threadVars, publishVars, link, loop, running,
                   subscribed, armed, prevArmed, lastOp, nsched>>

\* shutdown on the main thread; line 154: if self.reconnect_timer
DiscTest ==
    /\ running
    /\ lastOp.op # "none"
    /\ tpc[MainThread] = "idle"
    /\ Goto(MainThread, IF reconnect_timer # NoTimer THEN "l155" ELSE "l156")
    /\ UNCHANGED <<storeVars, ingestVars, threadVars, publishVars, link, loop, running,
                   reconnect_delay, reconnect_timer, timers, subscribed, armed,
                   prevArmed, lastOp, tloc, nsched>>

\* line 155: self.reconnect_timer.cancel()
DiscCancel ==
    /\ tpc[MainThread] = "l155"
    /\ LET ref == reconnect_timer
       IN  IF ref \in TimerIds /\ timers[ref].state = "pending"
           THEN timers' = [timers EXCEPT ![ref] = Unused] /\ reconnect_timer' = DeadTimer
           ELSE IF ref \in TimerIds /\ timers[ref].state = "created"
           THEN timers' = [timers EXCEPT ![ref].state = "cancelled"]
                /\ UNCHANGED reconnect_timer
           ELSE UNCHANGED <<timers, reconnect_timer>>
    /\ Goto(MainThread, "l156")
    /\ UNCHANGED <<storeVars, ingestVars, threadVars, publishVars, link, loop, running,
                   reconnect_delay, subscribed, armed, prevArmed, lastOp, tloc, nsched>>

\* lines 156-158: loop_stop() joins the network thread, so it waits for a
\* callback that is running; then client.disconnect(), and disconnect() returns
DiscRelease ==
    /\ tpc[MainThread] = "l156"
    /\ tpc[TransportThread] = "idle"
    /\ loop' = FALSE
    /\ link' = "idle"
    /\ Goto(MainThread, "returned")
    /\ UNCHANGED <<storeVars, ingestVars, threadVars, publishVars, running,
                   reconnect_delay, reconnect_timer, timers, subscribed, armed,
                   prevArmed, lastOp, tloc, nsched>>

NextRace ==
    \/ \E ok \in BOOLEAN : Start(ok)
    \/ \E rc \in ResultCodes : OnConnect(rc)
    \/ TransportReconnect
    \/ \E rc \in ResultCodes : DisconnectBegins(rc)
    \/ \E id \in TimerIds, ok \in BOOLEAN : TimerBegins(id, ok)
    \/ \E t \in Threads : SchedTest(t)
    \/ \E t \in Threads : SchedCancel(t)
    \/ \E t \in Threads : SchedDelay(t)
    \/ \E t \in Threads : SchedNewTimer(t)
    \/ \E t \in Threads : SchedDaemon(t)
    \/ \E t \in Threads : SchedStart(t)
    \/ \E t \in Threads : SchedGrowRead(t)
    \/ \E t \in Threads : SchedGrowWrite(t)
    \/ DiscTest
    \/ DiscCancel
    \/ DiscRelease

SpecRace == Init /\ [][NextRace]_vars

(***************************************************************************)
(* Store under two threads: the transport thread runs a setter statement   *)
(* by statement while the main loop runs get_all field by field; both take *)
(* MQTTDataStore._lock first and release it on leaving the with-block,     *)
(* also when float() raised.                                               *)
(***************************************************************************)
Parts == { <<"1">>, <<"2">>, <<"x">> }

\* the setter calls _on_message makes: update_phase_powers and update_power
SetterCalls ==
    {PhaseAssignments(a, b, c) : a \in Parts, b \in Parts, c \in Parts}
        \cup {<< <<"pow_ges", v>> >> : v \in Parts}

FieldOrder ==
    <<"pow_ges", "e_today", "e_total", "pow_l1", "pow_l2", "pow_l3", "connected">>

\* the lock is there to be taken by a thread
CanAcquire(thread) == lock = "free"

SetterBegin(assigns) ==
    /\ wpc = "idle"
    /\ Cardinality(calls) < MaxCalls
    /\ wpc' = "acquire"
    /\ wargs' = assigns
    /\ calls' = calls \cup {assigns}
    /\ UNCHANGED <<storeVars, rpc, data, ingestVars, publishVars, connVars>>

SetterAcquire ==
    /\ wpc = "acquire"
    /\ CanAcquire("mqtt")
    /\ lock' = "mqtt"
    /\ wpc' = "assign"
    /\ UNCHANGED <<store, wargs, calls, rpc, data, ingestVars, publishVars, connVars>>

\* one statement self.<field> = float(<text>); float() may raise ValueError
SetterAssign ==
    /\ wpc = "assign"
    /\ IF Len(wargs) = 0
       THEN wpc' = "release" /\ UNCHANGED <<store, wargs>>
       ELSE IF IsFloat(Head(wargs)[2])
            THEN /\ store' = AssignFloat(store, Head(wargs)[1], Head(wargs)[2])
                 /\ wargs' = Tail(wargs)
                 /\ wpc' = "assign"
            ELSE /\ wpc' = "release"
                 /\ wargs' = <<>>
                 /\ UNCHANGED store
    /\ UNCHANGED <<lock, calls, rpc, data, ingestVars, publishVars, connVars>>

SetterRelease ==
    /\ wpc = "release"
    /\ lock' = "free"
    /\ wpc' = "idle"
    /\ UNCHANGED <<store, wargs, calls, rpc, data, ingestVars, publishVars, connVars>>

GetAllBegin ==
    /\ rpc \in {"idle", "done"}
    /\ rpc' = "acquire"
    /\ data' = <<>>
    /\ UNCHANGED <<storeVars, wpc, wargs, calls, ingestVars, publishVars, connVars>>

GetAllAcquire ==
    /\ rpc = "acquire"
    /\ CanAcquire("main")
    /\ lock' = "main"
    /\ rpc' = "read"
    /\ UNCHANGED <<store, data, wpc, wargs, calls, ingestVars, publishVars, connVars>>

\* the dict display reads one attribute after the other
GetAllRead ==
    /\ rpc = "read"
    /\ IF Len(data) < Len(FieldOrder)
       THEN data' = Append(data, store[FieldOrder[Len(data) + 1]]) /\ rpc' = "read"
       ELSE rpc' = "release" /\ UNCHANGED data
    /\ UNCHANGED <<storeVars, wpc, wargs, calls, ingestVars, publishVars, connVars>>

GetAllReturn ==
    /\ rpc = "release"
    /\ lock' = "free"
    /\ rpc' = "done"
    /\ UNCHANGED <<store, data, wpc, wargs, calls, ingestVars, publishVars, connVars>>

NextStore ==
    \/ \E assigns \in SetterCalls : SetterBegin(assigns)
    \/ SetterAcquire
    \/ SetterAssign
    \/ SetterRelease
    \/ GetAllBegin
    \/ GetAllAcquire
    \/ GetAllRead
    \/ GetAllReturn

SpecStore == Init /\ [][NextStore]_vars

\* the phase triples that some update_phase_powers call was asked to write
CalledTriples ==
    { <<FloatOf(c[1][2]), FloatOf(c[2][2]), FloatOf(c[3][2])>> :
        c \in {k \in calls : Len(k) = 3 /\ \A i \in 1..3 : IsFloat(k[i][2])} }

\* get_all never sees a setter half way: while it holds the lock the dict
\* it has built is the store as it stands
SnapshotIsStoreUnderLock ==
    rpc \in {"read", "release"} =>
        \A i \in 1..Len(data) : data[i] = store[FieldOrder[i]]

(***************************************************************************)
(* C1: a snapshot returned by get_all is the whole store of one instant,   *)
(* and its phase triple is the initial triple or the triple of one         *)
(* update_phase_powers call, never parts of two.                           *)
(***************************************************************************)
C1_SnapshotTripleOfOneCall ==
    /\ SnapshotIsStoreUnderLock
    /\ rpc = "done" =>
          <<data[4], data[5], data[6]>> \in {PhaseTriple(StoreInit)} \cup CalledTriples

(***************************************************************************)
(* C2: a pvpwrl123 message with a part count other than 3 or with an      *)
(* unparseable part leaves every store field as it was.                    *)
(***************************************************************************)
C2_MalformedPhasesDiscarded ==
    (lastMsg.topic = TopicPhases /\ ~lastMsg.wellFormed) => store = lastMsg.before

(***************************************************************************)
(* C3: /UpdateIndex starts at 0, stays in 0..255 and is the number of     *)
(* runs of _update that completed, modulo 256: each such run adds exactly  *)
(* one, a run that raised adds nothing, and 256 runs bring it back to 0.   *)
(***************************************************************************)
C3_RevisionCounter ==
    /\ dbus[PathIndex] \in 0..(Modulus - 1)
    /\ dbus[PathIndex] = okTicks % Modulus

C3_Witness == okTicks = Modulus /\ dbus[PathIndex] = 0 /\ lastTick.failAt = 0

(***************************************************************************)
(* C4: when the assignment of one path raises, the paths after it in the   *)
(* same run are still assigned.                                            *)
(***************************************************************************)
C4_FailureDoesNotAbortTick ==
    lastTick.failAt # 0 =>
        \A i \in (lastTick.failAt + 1)..NWrites : WriteOrder[i] \in lastTick.written

(***************************************************************************)
(* C5: every run of _update, raising or not, returns True, so the timer    *)
(* stays installed, a further run is always possible, and runs of _update  *)
(* occur again and again.                                                  *)
(***************************************************************************)
C5_TimerStaysScheduled ==
    /\ [](lastTick.returned /\ publishScheduled /\ ENABLED Tick)
    /\ []<><<Tick>>_vars

C5_Witness == lastTick.failAt # 0 /\ lastTick.returned /\ publishScheduled /\ okTicks > 0

(***************************************************************************)
(* C6: at most one reconnect timer is pending, whichever threads run       *)
(* _schedule_reconnect and however their lines interleave.                 *)
(***************************************************************************)
C6_AtMostOnePendingTimer == Cardinality(Pending) <= 1

(***************************************************************************)
(* C7: counted from a reset (or from the start), the first three timers    *)
(* are armed with 5 s, 7.5 s and 11.25 s, in that order; the one armed     *)
(* first after a reset has 5 s however many were armed before the reset.   *)
(***************************************************************************)
C7_BackoffSequence ==
    /\ Len(armed) >= 1 => armed[1] = 5 * Scale
    /\ Len(armed) >= 2 => armed[2] = (15 * Scale) \div 2
    /\ Len(armed) >= 3 => armed[3] = (45 * Scale) \div 4

C7_Witness == prevArmed >= 4 /\ Len(armed) = 3 /\ armed[3] = (45 * Scale) \div 4

(***************************************************************************)
(* C8: reconnect_delay and every armed delay lie between the floor and the *)
(* ceiling; between two resets the armed delays never decrease, and once   *)
(* one is the ceiling the later ones are the ceiling.                      *)
(***************************************************************************)
C8_DelayBounds ==
    /\ FloorDelay <= reconnect_delay /\ reconnect_delay <= CeilingDelay
    /\ \A i \in 1..Len(armed) : FloorDelay <= armed[i] /\ armed[i] <= CeilingDelay
    /\ \A id \in TimerIds :
          timers[id].state # "unused" =>
              FloorDelay <= timers[id].delay /\ timers[id].delay <= CeilingDelay
    /\ \A i, j \in 1..Len(armed) :
          i < j => /\ armed[i] <= armed[j]
                   /\ armed[i] = CeilingDelay => armed[j] = CeilingDelay

C8_Witness ==
    /\ Len(armed) = MaxRetries
    /\ armed[MaxRetries - 1] = CeilingDelay
    /\ armed[MaxRetries] = CeilingDelay
    /\ armed[1] = FloorDelay
    /\ reconnect_delay = CeilingDelay

(***************************************************************************)
(* C9: after _on_disconnect the store says not connected; for a result     *)
(* code other than 0 exactly one timer has been armed, with the delay      *)
(* computed from reconnect_delay, and for 0 none; in neither case did the  *)
(* callback itself call the transport's connect.                           *)
(***************************************************************************)
C9_OnDisconnect ==
    lastOp.op = "on_disconnect" =>
        /\ ~store.connected
        /\ lastOp.fx.connects = 0
        /\ IF lastOp.rc # 0
           THEN /\ lastOp.fx.armed = 1
                /\ reconnect_timer \in TimerIds
                /\ timers[reconnect_timer] =
                      [state |-> "pending", delay |-> ArmDelay(lastOp.delayBefore)]
           ELSE /\ lastOp.fx.armed = 0
                /\ \A id \in TimerIds : timers[id].state = "unused"
                /\ reconnect_delay = lastOp.delayBefore

C9_Witness ==
    /\ lastOp.op = "on_disconnect" /\ lastOp.rc # 0
    /\ lastOp.delayBefore > FloorDelay
    /\ timers[reconnect_timer].delay = lastOp.delayBefore

(***************************************************************************)
(* C10: _on_connect with result code 0 marks the store connected, puts     *)
(* reconnect_delay back to the floor and subscribes; with any other code   *)
(* it marks the store not connected, does not subscribe, leaves            *)
(* reconnect_delay alone and arms no timer.                                *)
(***************************************************************************)
C10_OnConnect ==
    lastOp.op = "on_connect" =>
        IF lastOp.rc = 0
        THEN /\ store.connected
             /\ reconnect_delay = FloorDelay
             /\ subscribed /\ lastOp.fx.subscribes = 1
        ELSE /\ ~store.connected
             /\ ~subscribed /\ lastOp.fx.subscribes = 0
             /\ reconnect_delay = lastOp.delayBefore
             /\ lastOp.fx.armed = 0 /\ lastOp.fx.connects = 0

C10_Witness ==
    /\ lastOp.op = "on_connect" /\ lastOp.rc = 0
    /\ lastOp.delayBefore > FloorDelay
    /\ reconnect_delay = FloorDelay /\ subscribed /\ store.connected

\* what the store shows of the numbers a valid message stated
Reflects(s, topic, values) ==
    CASE topic = TopicPower -> get_all(s).pow_ges = values[1]
      [] topic = TopicToday -> get_all(s).e_today = values[1]
      [] topic = TopicTotal -> get_all(s).e_total = values[1]
      [] topic = TopicPhases -> PhaseTriple(get_all(s)) = values
      [] OTHER -> TRUE

(***************************************************************************)
(* C12: _on_message lets no exception through, whatever the topic and the  *)
(* payload; the store's lock is free afterwards; and a valid message that  *)
(* follows on one of the four topics is applied.                           *)
(***************************************************************************)
C12_IngestSurvivesBadMessages ==
    /\ lastMsg.outcome \in
          {"none", "applied", "ignored", "bad_count", "parse_error", "decode_error"}
    /\ lock = "free"
    /\ msgs = 2 => /\ lastMsg.outcome = "applied"
                   /\ lastMsg.values # <<>>
                   /\ Reflects(store, lastMsg.topic, lastMsg.values)

C12_Witness ==
    /\ msgs = 2 /\ lastMsg.outcome = "applied" /\ lastMsg.topic = TopicPhases
    /\ PhaseTriple(lastMsg.before) = <<1, 0, 0>>
    /\ PhaseTriple(store) = <<230, 460, 0>>

(***************************************************************************)
(* C13: after a valid message the snapshot shows what it stated: the       *)
(* number of a pvpower, pvtoday or pvtotal payload in pow_ges, e_today or  *)
(* e_total, the three numbers of a pvpwrl123 payload in pow_l1, pow_l2,    *)
(* pow_l3 in that order.                                                   *)
(***************************************************************************)
C13_ValidMessageReflected ==
    lastMsg.values # <<>> =>
        /\ lastMsg.outcome = "applied"
        /\ Reflects(store, lastMsg.topic, lastMsg.values)

C13_Witness ==
    /\ msgs = 1 /\ lastMsg.topic = TopicPhases
    /\ lastMsg.values = <<1, 2, 1>>
    /\ PhaseTriple(get_all(store)) = <<1, 2, 1>>

(***************************************************************************)
(* C14: e_totkwh = e_total / 10000.0 - 73311 is 0.0 for e_total =           *)
(* 733110000 and 1.0 for e_total = 733120000 (10000 units of 0.1 Wh are     *)
(* one kWh); round(e_totkwh, 1) is published as 0.0 and 1.0.                *)
(***************************************************************************)
C14_NetEnergy ==
    /\ store.e_total = 733110000 =>
          /\ NetEnergyRaw(get_all(store)) = 0
          /\ EnergyTenths(get_all(store)) = 0
    /\ store.e_total = 733120000 =>
          /\ NetEnergyRaw(get_all(store)) = 1 * UnitsPerKWh
          /\ EnergyTenths(get_all(store)) = Tenths(1)

\* C14 as the interface states it: 0.1 kWh for e_total = 733120000
C14_AsStated ==
    /\ store.e_total = 733110000 => NetEnergyRaw(get_all(store)) = 0
    /\ store.e_total = 733120000 => 10 * NetEnergyRaw(get_all(store)) = 1 * UnitsPerKWh

C14_Witness ==
    /\ store.e_total = 733120000
    /\ lastTick.failAt = 0 /\ okTicks = 1
    /\ dbus[PathEnergy] = Tenths(1)

(***************************************************************************)
(* C15: a run of _update that completes assigns every outbound path:       *)
(* power, energy, and per phase voltage, current, power and energy, then   *)
(* /UpdateIndex; and the three voltage paths read 230 after it.            *)
(***************************************************************************)
C15_EveryPathWritten ==
    (okTicks > 0 /\ lastTick.failAt = 0) =>
        /\ lastTick.written = MetricPaths
        /\ \A i \in 1..3 : dbus[PathVoltage(Phases[i])] = Tenths(230)

(***************************************************************************)
(* C16: before any message the store holds 0 in every field, False in      *)
(* connected and 73311 * 10000 in e_total; a run of _update for which no   *)
(* pvtotal message was applied before publishes 0 as energy forward, for   *)
(* the total and for each phase.                                           *)
(***************************************************************************)
NoTotalApplied ==
    \/ msgs = 0
    \/ msgs = 1 /\ ~(lastMsg.topic = TopicTotal /\ lastMsg.outcome = "applied")
    \/ /\ msgs = 2 /\ ~(lastMsg.topic = TopicTotal /\ lastMsg.outcome = "applied")
       /\ lastMsg.before.e_total = 73311 * 10000

C16_InitialEnergyReadsZero ==
    /\ msgs = 0 =>
          get_all(store) = [ pow_ges |-> 0, e_today |-> 0, e_total |-> 73311 * 10000,
                             pow_l1 |-> 0, pow_l2 |-> 0, pow_l3 |-> 0,
                             connected |-> FALSE ]
    /\ NoTotalApplied =>
          /\ store.e_total = 73311 * 10000
          /\ \A p \in {PathEnergy} \cup {PathPhaseEnergy(Phases[i]) : i \in 1..3} :
                p \in lastTick.written => dbus[p] = 0

C16_Witness ==
    /\ msgs = 2 /\ NoTotalApplied /\ lastMsg.topic = TopicPhases
    /\ lastTick.failAt = 0 /\ okTicks = 1
    /\ dbus[PathPhaseEnergy("L1")] = 0 /\ dbus[PathPhasePower("L1")] = Tenths(230)

(***************************************************************************)
(* C18: for phase powers 230, 460 and 0 the currents round(power / 230, 1) *)
(* are 1.0, 2.0 and 0.0, and the published phase powers are 230.0, 460.0   *)
(* and 0.0.                                                                *)
(***************************************************************************)
C18_Currents ==
    PhaseTriple(get_all(store)) = <<230, 460, 0>> =>
        /\ [i \in 1..3 |-> PublishedValue(PathCurrent(Phases[i]), get_all(store), dbus)]
              = <<10, 20, 0>>
        /\ [i \in 1..3 |-> PublishedValue(PathPhasePower(Phases[i]), get_all(store), dbus)]
              = <<2300, 4600, 0>>

C18_Witness ==
    /\ PhaseTriple(store) = <<230, 460, 0>>
    /\ lastTick.failAt = 0 /\ okTicks = 1
    /\ dbus[PathCurrent("L1")] = 10 /\ dbus[PathCurrent("L2")] = 20
    /\ dbus[PathCurrent("L3")] = 0 /\ dbus[PathPhasePower("L2")] = 4600

(***************************************************************************)
(* C19: a message changes no store field but those its topic names, and    *)
(* never connected; a message on another topic changes none; a run of      *)
(* _update changes none.                                                   *)
(***************************************************************************)
C19_Frame ==
    [][ /\ msgs' # msgs =>
              \A f \in DOMAIN store : f \notin Named(lastMsg'.topic) => store'[f] = store[f]
        /\ lastTick' # lastTick => store' = store ]_vars

C19_Witness ==
    /\ msgs = 2 /\ lastTick # NoTick
    /\ lastMsg.topic = TopicPhases
    /\ store = [StoreInit EXCEPT !.pow_ges = 21, !.pow_l1 = 230, !.pow_l2 = 460]

C17_DisconnectBeforeExit ==
    ~running =>
        /\ lastOp.op \in {"disconnect", "on_disconnect"} /\ lastOp.rc = 0
        /\ Pending = {}
        /\ ~loop
        /\ link = "idle"

C17_Witness ==
    /\ ~running /\ lastOp.op = "disconnect"
    /\ lastOp.attempt = 1 /\ reconnect_timer = DeadTimer
    /\ reconnect_delay > FloorDelay
    /\ Pending = {} /\ ~loop /\ link = "idle"

(***************************************************************************)
(* C20: after an unexpected disconnect (rc # 0) and after a connect() that *)
(* failed, connect() is called again, unless the process shuts down;       *)
(* armed timers fire in the end.                                           *)
(***************************************************************************)
NeedsRetry ==
    /\ running
    /\ \/ lastOp.op = "on_disconnect" /\ lastOp.rc # 0
       \/ lastOp.op \in {"connect", "timer"} /\ lastOp.fx.failed = 1

C20_ConnectAgain ==
    \A b \in {0, 1} :
        (NeedsRetry /\ lastOp.attempt = b) ~> (lastOp.attempt # b \/ ~running)

C20_Witness ==
    /\ running /\ lastOp.op = "timer" /\ lastOp.fx.failed = 0
    /\ lastOp.delayBefore = CeilingDelay
    /\ Len(armed) = MaxRetries
    /\ link = "connecting"

(***************************************************************************)
(* C21: once disconnect() has returned no reconnect timer is pending and   *)
(* no timer runs connect() any more, however disconnect() interleaves with *)
(* _on_disconnect on the network thread and with a timer that is firing.   *)
(***************************************************************************)
C21_NothingAfterDisconnect ==
    /\ [](tpc[MainThread] = "returned" => Pending = {})
    /\ [][tpc[MainThread] = "returned" =>
             ~(\E id \in TimerIds, ok \in BOOLEAN : TimerBegins(id, ok))]_vars

(***************************************************************************)
(* C22: after _on_connect(rc = 0) has completed, the next call of          *)
(* _schedule_reconnect to begin (here: the one _on_disconnect makes on the *)
(* network thread) computes the floor delay at line 216, also when another *)
(* thread was inside _schedule_reconnect while the reset ran.             *)
(***************************************************************************)
C22_ResetNotLost ==
    [][ ( /\ lastOp.op = "on_connect" /\ lastOp.rc = 0
          /\ nsched = lastOp.sched + 1
          /\ tpc[TransportThread] = "l216"
          /\ tpc'[TransportThread] = "l218" )
        => tloc'[TransportThread].delay = FloorDelay ]_vars

=============================================================================
